---- MODULE Spec2Model ----
(***************************************************************************)
(* Scroll to Breathe (src/script.js).                                      *)
(*                                                                         *)
(* The page script registers one scroll handler (handleScroll) on window   *)
(* and on document, calls it once at start-up, and registers one click     *)
(* handler on the audio toggle.                                            *)
(*                                                                         *)
(* Numbers.  Every quantity the handler computes from the scroll offset    *)
(* is a rational function of the offset and of the scrollable range,       *)
(* except the two sines.  Rationals are exact pairs <<n, d>> in lowest     *)
(* terms with d > 0.  A sine sin(pi * x) of a rational x is kept as the    *)
(* exact value it denotes: its sign and the reduced argument in [0, 1/2],  *)
(* where the sine is injective, so two sines are the same record exactly   *)
(* when they are the same real number.  The rounding of IEEE doubles is    *)
(* not modelled.                                                           *)
(*                                                                         *)
(* Layout.  The script never writes scrollHeight or innerHeight and has    *)
(* no resize listener; a run keeps the two heights it starts with, and     *)
(* the runs together cover every pair of heights within the bounds.        *)
(***************************************************************************)
EXTENDS Integers, Sequences, FiniteSets, TLC

\* ---------------------------------------------------------------- bounds
MaxScrollHeight == 11   \* scrollContainer.scrollHeight ranges over 0..MaxScrollHeight
MaxInnerHeight  == 1    \* window.innerHeight ranges over 1..MaxInnerHeight
OverScroll      == 1    \* how far the host may report an offset outside the range
NumShapes       == 2    \* number of .shape elements in the page
NumMessages     == 5    \* number of .affirmation elements in the page
MaxAlerts       == 2    \* cap on the number of notices shown
MaxPlayCalls    == 2    \* cap on the number of play() requests

\* ------------------------------------------------------------- rationals
Abs(n) == IF n < 0 THEN -n ELSE n

RECURSIVE GCD(_, _)
GCD(a, b) == IF b = 0 THEN a ELSE GCD(b, a % b)

Rat(n, d) == LET g == GCD(Abs(n), d) IN <<n \div g, d \div g>>

Int2Rat(n) == <<n, 1>>

RatLt(a, b) == a[1] * b[2] < b[1] * a[2]
RatLe(a, b) == a[1] * b[2] <= b[1] * a[2]
RatAdd(a, b) == Rat(a[1] * b[2] + b[1] * a[2], a[2] * b[2])
RatSub(a, b) == Rat(a[1] * b[2] - b[1] * a[2], a[2] * b[2])
RatMul(a, b) == Rat(a[1] * b[1], a[2] * b[2])
\* division by a positive rational
RatDiv(a, b) == Rat(a[1] * b[2], a[2] * b[1])
RatAbs(a) == <<Abs(a[1]), a[2]>>
RatMin(a, b) == IF RatLe(a, b) THEN a ELSE b
RatMax(a, b) == IF RatLe(a, b) THEN b ELSE a

\* Math.sin(x * Math.PI) for a rational x, as the exact value it denotes:
\* sign * sin(pi * arg) with arg in [0, 1/2]; the sign of zero is 1.
SinPi(x) ==
  LET y == Rat(x[1] % (2 * x[2]), x[2])          \* x modulo 2, in [0, 2)
      half == <<1, 2>>
      one == <<1, 1>>
      threeHalves == <<3, 2>>
      two == <<2, 1>>
  IN  IF y = <<0, 1>> \/ y = one THEN [sign |-> 1, arg |-> <<0, 1>>]
      ELSE IF RatLe(y, half) THEN [sign |-> 1, arg |-> y]
      ELSE IF RatLt(y, one) THEN [sign |-> 1, arg |-> RatSub(one, y)]
      ELSE IF RatLe(y, threeHalves) THEN [sign |-> -1, arg |-> RatSub(y, one)]
      ELSE [sign |-> -1, arg |-> RatSub(two, y)]

\* a + b * sin(pi * x), kept exact
SinAffine(a, b, x) == [base |-> a, amp |-> b, sin |-> SinPi(x)]

\* ------------------------------------------------------ program constants
\* const messagePositions = [0.10, 0.30, 0.50, 0.70, 0.90];  (0-indexed)
messagePositions ==
  [i \in 0..4 |-> CASE i = 0 -> <<1, 10>>
                    [] i = 1 -> <<3, 10>>
                    [] i = 2 -> <<1, 2>>
                    [] i = 3 -> <<7, 10>>
                    [] i = 4 -> <<9, 10>>]

fadeRange == <<3, 25>>         \* const fadeRange = 0.12
wrapThreshold == <<99, 100>>   \* progress >= 0.99
wrapOffset == 1                \* window.scrollTo(0, 1)

InitialLabel == "Sound"        \* the toggle's text from the markup, before any click
AudioSources == {"", "ambient.mp3"}

\* ------------------------------------------------------------------ state
VARIABLES
  scrollHeight,     \* scrollContainer.scrollHeight
  innerHeight,      \* window.innerHeight
  pageYOffset,      \* window.pageYOffset, the host's vertical scroll offset
  scrollPending,    \* a scroll event is waiting to be dispatched
  queue,            \* listeners of the running dispatch still to be called
  scrollTop,        \* handleScroll's local scrollTop of its last call (<<>> before)
  progress,         \* handleScroll's local progress of its last call (<<>> before)
  bodyBackground,   \* document.body.style.backgroundColor (<<>> while unset)
  shapeTransform,   \* shape.style.transform, per shape index (<<>> while unset)
  messageOpacity,   \* msg.style.opacity, per message index (<<>> while unset)
  audioSrc,         \* ambientAudio.src
  audioPaused,      \* ambientAudio.paused
  playPromise,      \* the promise of the last play(): "none", "pending", "rejected"
  toggleLabel,      \* audioToggle.textContent
  alerts,           \* number of alert() notices shown
  playCalls         \* number of ambientAudio.play() requests

scrollVars == <<scrollHeight, innerHeight, pageYOffset, scrollPending, queue,
                scrollTop, progress, bodyBackground, shapeTransform, messageOpacity>>
audioVars == <<audioSrc, audioPaused, playPromise, toggleLabel, alerts, playCalls>>
vars == <<scrollHeight, innerHeight, pageYOffset, scrollPending, queue,
          scrollTop, progress, bodyBackground, shapeTransform, messageOpacity,
          audioSrc, audioPaused, playPromise, toggleLabel, alerts, playCalls>>

\* ------------------------------------------------------- handleScroll

\* document.documentElement.scrollTop reports the same viewport offset
documentElementScrollTop == pageYOffset

\* window.pageYOffset || document.documentElement.scrollTop
ReadScrollTop == IF pageYOffset # 0 THEN pageYOffset ELSE documentElementScrollTop

\* scrollContainer.scrollHeight - window.innerHeight
totalScroll == scrollHeight - innerHeight

\* Variant: the ratio is used as it is, without Math.min / Math.max.
ProgressUnclamped(st, total) ==
  IF total > 0 THEN Rat(st, total) ELSE Int2Rat(0)

\* Variant: the offset is folded into the range (a looping ratio).
ProgressModular(st, total) ==
  IF total > 0 THEN Rat(st % total, total) ELSE Int2Rat(0)

\* totalScroll > 0 ? Math.min(1, Math.max(0, scrollTop / totalScroll)) : 0
Progress(st, total) ==
  IF total > 0
    THEN RatMin(Int2Rat(1), RatMax(Int2Rat(0), Rat(st, total)))
    ELSE Int2Rat(0)

\* hsl(hue, 60%, lightness%) with hue = 200 + progress * 100 and
\* lightness = 60 + Math.sin(progress * Math.PI) * 10
Background(p) ==
  [hue |-> RatAdd(Int2Rat(200), RatMul(p, Int2Rat(100))),
   saturation |-> 60,
   lightness |-> SinAffine(60, 10, p)]

\* phaseOffset = index * PI / shapes.length; phase = progress * 8 * PI + phaseOffset;
\* scale = 0.8 + Math.sin(phase) * 0.2
Scale(p, index) ==
  LET phaseOffset == Rat(index, NumShapes)
      phase == RatAdd(RatMul(p, Int2Rat(8)), phaseOffset)
  IN  SinAffine(<<4, 5>>, <<1, 5>>, phase)

\* Variant: the fade subtracts the distance itself, not distance / fadeRange.
OpacityNoDivide(p, i) ==
  IF i \notin DOMAIN messagePositions THEN Int2Rat(0)
  ELSE LET target == messagePositions[i]
           diff == RatAbs(RatSub(p, target))
       IN  IF RatLt(diff, fadeRange) THEN RatSub(Int2Rat(1), diff) ELSE Int2Rat(0)

\* target = messagePositions[i]; diff = |progress - target|;
\* opacity = diff < fadeRange ? 1 - diff / fadeRange : 0.
\* Past the end of messagePositions the target is undefined, diff is NaN,
\* the comparison is false and the opacity stays 0.
Opacity(p, i) ==
  IF i \notin DOMAIN messagePositions THEN Int2Rat(0)
  ELSE LET target == messagePositions[i]
           diff == RatAbs(RatSub(p, target))
       IN  IF RatLt(diff, fadeRange)
             THEN RatSub(Int2Rat(1), RatDiv(diff, fadeRange))
             ELSE Int2Rat(0)

\* progress >= 0.99
WrapReached(p) == RatLe(wrapThreshold, p)

\* The three groups of style writes of one call, from its progress.
ApplyVisuals(p) ==
  /\ bodyBackground' = <<Background(p)>>
  /\ shapeTransform' = [i \in 0..(NumShapes - 1) |-> <<Scale(p, i)>>]
  /\ messageOpacity' = [i \in 0..(NumMessages - 1) |-> <<Opacity(p, i)>>]

\* Variant: the wrap jumps to the very top, window.scrollTo(0, 0).
WrapAroundToTop(p) ==
  IF WrapReached(p)
    THEN /\ pageYOffset' = 0
         /\ scrollPending' = (scrollPending \/ pageYOffset # 0)
    ELSE UNCHANGED <<pageYOffset, scrollPending>>

\* if (progress >= 0.99) { window.scrollTo(0, 1); return; }
\* The host schedules a scroll event when the offset moved.
WrapAround(p) ==
  IF WrapReached(p)
    THEN /\ pageYOffset' = wrapOffset
         /\ scrollPending' = (scrollPending \/ pageYOffset # wrapOffset)
    ELSE UNCHANGED <<pageYOffset, scrollPending>>

\* Variant: the wrap is done first and the styles follow the offset it left.
HandleScrollWrapFirst ==
  /\ queue # <<>>
  /\ LET st == ReadScrollTop
         p == Progress(st, totalScroll)
         after == Progress(IF WrapReached(p) THEN wrapOffset ELSE st, totalScroll)
     IN  /\ scrollTop' = <<st>>
         /\ progress' = p
         /\ WrapAround(p)
         /\ ApplyVisuals(after)
  /\ queue' = Tail(queue)
  /\ UNCHANGED <<scrollHeight, innerHeight>>
  /\ UNCHANGED audioVars

\* Variant: the background hue is eased half-way from its previous value.
HandleScrollEased ==
  /\ queue # <<>>
  /\ LET st == ReadScrollTop
         p == Progress(st, totalScroll)
         to == Background(p)
     IN  /\ scrollTop' = <<st>>
         /\ progress' = p
         /\ bodyBackground' =
              IF bodyBackground = <<>> THEN <<to>>
              ELSE <<[to EXCEPT !.hue =
                        RatDiv(RatAdd(bodyBackground[1].hue, to.hue), Int2Rat(2))]>>
         /\ shapeTransform' = [i \in 0..(NumShapes - 1) |-> <<Scale(p, i)>>]
         /\ messageOpacity' = [i \in 0..(NumMessages - 1) |-> <<Opacity(p, i)>>]
         /\ WrapAround(p)
  /\ queue' = Tail(queue)
  /\ UNCHANGED <<scrollHeight, innerHeight>>
  /\ UNCHANGED audioVars

\* Variant: the wrap also stops the sound and resets the toggle's label.
HandleScrollStopsSound ==
  /\ queue # <<>>
  /\ LET st == ReadScrollTop
         p == Progress(st, totalScroll)
     IN  /\ scrollTop' = <<st>>
         /\ progress' = p
         /\ ApplyVisuals(p)
         /\ WrapAround(p)
         /\ IF WrapReached(p)
              THEN audioPaused' = TRUE /\ toggleLabel' = "Play Sound"
              ELSE UNCHANGED <<audioPaused, toggleLabel>>
  /\ queue' = Tail(queue)
  /\ UNCHANGED <<scrollHeight, innerHeight>>
  /\ UNCHANGED <<audioSrc, playPromise, alerts, playCalls>>

HandleScroll ==
  /\ queue # <<>>
  /\ LET st == ReadScrollTop
         p == Progress(st, totalScroll)
     IN  /\ scrollTop' = <<st>>
         /\ progress' = p
         /\ ApplyVisuals(p)
         /\ WrapAround(p)
  /\ queue' = Tail(queue)
  /\ UNCHANGED <<scrollHeight, innerHeight>>
  /\ UNCHANGED audioVars

\* ------------------------------------------------------------- the host

\* The user scrolls: the host moves the offset and schedules a scroll event.
UserScroll ==
  /\ queue = <<>>
  /\ \E y \in (0 - OverScroll)..((IF totalScroll > 0 THEN totalScroll ELSE 0) + OverScroll) :
       /\ y # pageYOffset
       /\ pageYOffset' = y
  /\ scrollPending' = TRUE
  /\ UNCHANGED <<scrollHeight, innerHeight, queue, scrollTop, progress,
                 bodyBackground, shapeTransform, messageOpacity>>
  /\ UNCHANGED audioVars

\* The host dispatches the scroll event: it is fired at the document and
\* bubbles to the window, and both have handleScroll registered.
DispatchScroll ==
  /\ queue = <<>>
  /\ scrollPending
  /\ scrollPending' = FALSE
  /\ queue' = <<"document", "window">>
  /\ UNCHANGED <<scrollHeight, innerHeight, pageYOffset, scrollTop, progress,
                 bodyBackground, shapeTransform, messageOpacity>>
  /\ UNCHANGED audioVars

\* ------------------------------------------------------- audio toggle

\* ambientAudio.play(): the platform either refuses at once (the promise is
\* rejected and the element stays paused) or accepts (the element is no longer
\* paused and the promise is pending).
PlayRequested ==
  /\ playCalls' = playCalls + 1
  /\ \E allowed \in BOOLEAN :
       IF allowed
         THEN audioPaused' = FALSE /\ playPromise' = "pending"
         ELSE audioPaused' = audioPaused /\ playPromise' = "rejected"

\* ambientAudio.pause(): the element is paused; a pending play() promise is rejected.
PauseRequested ==
  /\ audioPaused' = TRUE
  /\ playPromise' = (IF playPromise = "pending" THEN "rejected" ELSE playPromise)

\* Variant: the notice is shown but the handler does not return after it.
ToggleClickNoReturn ==
  /\ queue = <<>>
  /\ playPromise # "rejected"
  /\ IF audioSrc = ""
       THEN alerts < MaxAlerts /\ alerts' = alerts + 1
       ELSE UNCHANGED alerts
  /\ IF audioPaused
       THEN /\ playCalls < MaxPlayCalls
            /\ PlayRequested
            /\ toggleLabel' = "Pause Sound"
       ELSE /\ PauseRequested
            /\ toggleLabel' = "Play Sound"
            /\ UNCHANGED playCalls
  /\ UNCHANGED audioSrc
  /\ UNCHANGED scrollVars

\* Variant: the two labels are exchanged.
ToggleClickSwappedLabels ==
  /\ queue = <<>>
  /\ playPromise # "rejected"
  /\ IF audioSrc = ""
       THEN /\ alerts < MaxAlerts
            /\ alerts' = alerts + 1
            /\ UNCHANGED <<audioPaused, playPromise, toggleLabel, playCalls>>
       ELSE IF audioPaused
         THEN /\ playCalls < MaxPlayCalls
              /\ PlayRequested
              /\ toggleLabel' = "Play Sound"
              /\ UNCHANGED alerts
         ELSE /\ PauseRequested
              /\ toggleLabel' = "Pause Sound"
              /\ UNCHANGED <<alerts, playCalls>>
  /\ UNCHANGED audioSrc
  /\ UNCHANGED scrollVars

\* The click listener of the toggle.  It runs as a task of its own, after the
\* reactions of an earlier rejection have run.
ToggleClick ==
  /\ queue = <<>>
  /\ playPromise # "rejected"
  /\ IF audioSrc = ""
       THEN /\ alerts < MaxAlerts
            /\ alerts' = alerts + 1
            /\ UNCHANGED <<audioPaused, playPromise, toggleLabel, playCalls>>
       ELSE IF audioPaused
         THEN /\ playCalls < MaxPlayCalls
              /\ PlayRequested
              /\ toggleLabel' = "Pause Sound"
              /\ UNCHANGED alerts
         ELSE /\ PauseRequested
              /\ toggleLabel' = "Play Sound"
              /\ UNCHANGED <<alerts, playCalls>>
  /\ UNCHANGED audioSrc
  /\ UNCHANGED scrollVars

\* The platform settles a pending play() promise: playback starts
\* (fulfilled, nothing is attached to it) or the media fails to load (rejected).
PlaySettles ==
  /\ playPromise = "pending"
  /\ \E ok \in BOOLEAN : playPromise' = (IF ok THEN "none" ELSE "rejected")
  /\ UNCHANGED <<audioSrc, audioPaused, toggleLabel, alerts, playCalls>>
  /\ UNCHANGED scrollVars

\* .catch(() => { /* ignore errors */ })
CatchHandler ==
  /\ playPromise = "rejected"
  /\ playPromise' = "none"
  /\ UNCHANGED <<audioSrc, audioPaused, toggleLabel, alerts, playCalls>>
  /\ UNCHANGED scrollVars

\* ---------------------------------------------------------- specification

Init ==
  /\ scrollHeight \in 0..MaxScrollHeight
  /\ innerHeight \in 1..MaxInnerHeight
  /\ pageYOffset \in 0..(IF scrollHeight - innerHeight > 0 THEN scrollHeight - innerHeight ELSE 0)
  /\ scrollPending = FALSE
  /\ queue = <<"startup">>
  /\ scrollTop = <<>>
  /\ progress = <<>>
  /\ bodyBackground = <<>>
  /\ shapeTransform = [i \in 0..(NumShapes - 1) |-> <<>>]
  /\ messageOpacity = [i \in 0..(NumMessages - 1) |-> <<>>]
  /\ audioSrc \in AudioSources
  /\ audioPaused = TRUE
  /\ playPromise = "none"
  /\ toggleLabel = InitialLabel
  /\ alerts = 0
  /\ playCalls = 0

Next ==
  \/ HandleScroll
  \/ UserScroll
  \/ DispatchScroll
  \/ ToggleClick
  \/ PlaySettles
  \/ CatchHandler

Spec == Init /\ [][Next]_vars

\* ================================================================ claims

\* A step in which handleScroll runs (one listener of the dispatch, or the
\* start-up call, is taken off the queue).
HandlerStep == queue # <<>> /\ queue' = Tail(queue)

\* The styles a call has written.
Visuals == <<bodyBackground, shapeTransform, messageOpacity>>

Zero == <<0, 1>>
One == <<1, 1>>

\* ---- C1
\* s / r clamped to [0, 1], and 0 when r <= 0, by cases on the integers.
ClampedRatio(s, r) ==
  IF r <= 0 THEN Zero
  ELSE IF s <= 0 THEN Zero
  ELSE IF s >= r THEN One
  ELSE Rat(s, r)

\* C1: in every invocation of handleScroll, for the scroll offset s and the
\* scrollable range r = scrollHeight - innerHeight it reads, the progress it
\* computes is 0 when r <= 0 and otherwise s / r clamped to [0, 1]; it is
\* always within [0, 1].
C1_ProgressClamped ==
  [][HandlerStep =>
       /\ progress' = ClampedRatio(pageYOffset, scrollHeight - innerHeight)
       /\ RatLe(Zero, progress') /\ RatLe(progress', One)
       /\ (scrollHeight - innerHeight <= 0 => progress' = Zero)]_vars

\* A call has read an offset beyond a positive range and clamped it to 1.
C1_Witness ==
  /\ scrollTop # <<>>
  /\ totalScroll > 0
  /\ scrollTop[1] > totalScroll
  /\ progress = One

\* ---- C2
\* C2: when handleScroll runs with progress >= 0.99, the background, the
\* shape scales and the message opacities it writes are those of that
\* pre-wrap progress, and the scroll offset it leaves is 1.
C2_VisualsBeforeWrap ==
  [][(HandlerStep /\ RatLe(<<99, 100>>, Progress(ReadScrollTop, totalScroll))) =>
       LET p == Progress(ReadScrollTop, totalScroll)
       IN  /\ bodyBackground' = <<Background(p)>>
           /\ \A i \in 0..(NumShapes - 1) : shapeTransform'[i] = <<Scale(p, i)>>
           /\ \A i \in 0..(NumMessages - 1) : messageOpacity'[i] = <<Opacity(p, i)>>
           /\ pageYOffset' = 1]_vars

\* A call has wrapped from an offset other than 1: the offset is 1 and the
\* background is that of the pre-wrap progress, which is not the background
\* of the offset the wrap left.
C2_Witness ==
  /\ progress # <<>>
  /\ RatLe(<<99, 100>>, progress)
  /\ scrollTop[1] > 1
  /\ pageYOffset = 1
  /\ bodyBackground = <<Background(progress)>>
  /\ bodyBackground # <<Background(Progress(1, totalScroll))>>

\* ---- C3
\* C3: a click on the toggle while the audio source is empty shows a notice
\* and changes nothing else: paused state, label, play requests and the play
\* promise are as before.
C3_EmptySourceClick ==
  [][(audioSrc = "" /\ ToggleClick) =>
       /\ alerts' = alerts + 1
       /\ audioPaused' = audioPaused
       /\ toggleLabel' = toggleLabel
       /\ playCalls' = playCalls
       /\ playPromise' = playPromise]_vars

\* The notice has been shown and the toggle and the audio are as at start.
C3_Witness ==
  /\ audioSrc = ""
  /\ alerts > 0
  /\ toggleLabel = InitialLabel
  /\ audioPaused
  /\ playCalls = 0

\* ---- C4
\* C4: with a source, a click while paused requests playback and sets the
\* label to "Pause Sound"; a click while playing pauses and sets the label
\* to "Play Sound".
C4_ToggleLabels ==
  [][(audioSrc # "" /\ ToggleClick) =>
       IF audioPaused
         THEN playCalls' = playCalls + 1 /\ toggleLabel' = "Pause Sound"
         ELSE audioPaused' /\ playCalls' = playCalls /\ toggleLabel' = "Play Sound"]_vars

\* Playback was requested and then stopped by a second click.
C4_Witness ==
  /\ audioSrc # ""
  /\ playCalls > 0
  /\ audioPaused
  /\ toggleLabel = "Play Sound"

\* ---- C5
\* C5: when a click requests playback and the platform rejects the request,
\* nothing is shown, nothing is retried and the label is left unchanged (it
\* becomes "Pause Sound" only when playback succeeds).
C5_LabelOnlyOnSuccess ==
  [][/\ (playCalls' = playCalls + 1 /\ playPromise' = "rejected") =>
          toggleLabel' = toggleLabel
     /\ (playPromise = "rejected" /\ playPromise' # "rejected") =>
          (alerts' = alerts /\ playCalls' = playCalls /\ toggleLabel' = toggleLabel)]_vars

\* ---- C6
\* The targets of the claim, in hundredths.
TargetPercent == <<10, 30, 50, 70, 90>>

\* max(0, 1 - |p - t| / 0.12) for p = n / d and t = k / 100, over the integers:
\* 1 - |100 n - k d| / (12 d).
FadeValue(p, k) ==
  LET dist == Abs(100 * p[1] - k * p[2])
  IN  IF dist >= 12 * p[2] THEN Zero ELSE Rat(12 * p[2] - dist, 12 * p[2])

\* C6: for every message with a target t of [0.10, 0.30, 0.50, 0.70, 0.90]
\* the opacity a call writes is max(0, 1 - |p - t| / 0.12) for the progress p
\* of the call: 1 exactly when p = t, 0 whenever |p - t| >= 0.12.
C6_MessageOpacity ==
  [][HandlerStep =>
       \A i \in 0..(NumMessages - 1) :
         i < Len(TargetPercent) =>
           LET k == TargetPercent[i + 1]
               p == progress'
               dist == Abs(100 * p[1] - k * p[2])
               o == messageOpacity'[i][1]
           IN  /\ o = FadeValue(p, k)
               /\ (o = One) <=> (100 * p[1] = k * p[2])
               /\ (dist >= 12 * p[2]) => o = Zero
               /\ (dist < 12 * p[2]) => (RatLt(Zero, o) /\ RatLe(o, One))]_vars

\* At progress 0.30 the second message is fully shown and the first is hidden.
C6_Witness ==
  /\ progress = <<3, 10>>
  /\ NumMessages >= 2
  /\ messageOpacity[1] = <<One>>
  /\ messageOpacity[0] = <<Zero>>

\* ---- C7
\* C7: for a positive scrollable range, progress is non-decreasing in the
\* scroll offset: of two successive calls, the one that reads the larger
\* offset computes the larger or equal progress.
C7_ProgressMonotone ==
  [][(HandlerStep /\ scrollTop # <<>> /\ scrollHeight - innerHeight > 0) =>
       /\ (scrollTop[1] <= scrollTop'[1]) => RatLe(progress, progress')
       /\ (scrollTop'[1] <= scrollTop[1]) => RatLe(progress', progress)]_vars

\* Two successive calls have happened in a positive range, the later one at
\* an offset inside the range and with a progress strictly between 0 and 1.
C7_Witness ==
  /\ queue = <<"window">>
  /\ totalScroll > 0
  /\ scrollTop # <<>>
  /\ 0 < scrollTop[1] /\ scrollTop[1] < totalScroll
  /\ RatLt(Zero, progress) /\ RatLt(progress, One)

\* ---- C8
\* C8: a call of handleScroll that follows a call with the same scroll
\* offset (the heights do not change), with progress < 0.99, writes the same
\* background, shape scales and message opacities again and leaves the
\* scroll offset unchanged.
C8_Idempotent ==
  [][(/\ HandlerStep
      /\ scrollTop # <<>>
      /\ scrollTop = <<ReadScrollTop>>
      /\ RatLt(progress, <<99, 100>>)) =>
       /\ Visuals' = Visuals
       /\ pageYOffset' = pageYOffset
       /\ progress' = progress]_vars

\* The document's listener has run at an offset inside the range and the
\* window's listener is about to run with the same inputs.
C8_Witness ==
  /\ queue = <<"window">>
  /\ scrollTop = <<pageYOffset>>
  /\ RatLt(Zero, progress)
  /\ RatLt(progress, <<99, 100>>)
  /\ bodyBackground = <<Background(progress)>>

\* ---- C9
\* C9: the paused state of the audio and the toggle's label change only in a
\* click on the toggle; handleScroll leaves them (and the rest of the audio
\* state) unchanged, and a click leaves the scroll offset, the background,
\* the shape scales and the message opacities unchanged.
C9_Frame ==
  [][/\ (audioPaused' # audioPaused \/ toggleLabel' # toggleLabel) =>
          (ToggleClick /\ ~HandlerStep)
     /\ HandlerStep => UNCHANGED <<audioPaused, toggleLabel, playPromise, playCalls, alerts>>
     /\ ToggleClick => UNCHANGED <<pageYOffset, scrollPending, Visuals>>]_vars

\* Scrolling has wrapped and the toggle has been clicked, in one run.
C9_Witness ==
  /\ progress # <<>>
  /\ RatLe(<<99, 100>>, progress)
  /\ pageYOffset = 1
  /\ ~audioPaused
  /\ toggleLabel = "Pause Sound"

\* ---- C10
\* C10: a call that reaches progress >= 0.99 leaves the offset at 1, and for
\* a scrollable range r >= 2 the next call, made at that offset, computes
\* progress 1 / r < 0.99, leaves the offset alone and schedules no further
\* scroll event: the wrap does not trigger itself again.
C10_WrapEnds ==
  [][/\ (HandlerStep /\ RatLe(<<99, 100>>, progress')) => pageYOffset' = 1
     /\ (/\ HandlerStep
         /\ progress # <<>>
         /\ RatLe(<<99, 100>>, progress)
         /\ pageYOffset = 1
         /\ scrollHeight - innerHeight >= 2) =>
          /\ progress' = Rat(1, scrollHeight - innerHeight)
          /\ RatLt(progress', <<99, 100>>)
          /\ pageYOffset' = pageYOffset
          /\ scrollPending' = scrollPending]_vars

\* The document's listener has just wrapped in a range of at least 2: the
\* offset is 1, the scroll event the wrap caused is waiting, and the window's
\* listener is the next call.
C10_Witness ==
  /\ totalScroll >= 2
  /\ queue = <<"window">>
  /\ progress # <<>>
  /\ RatLe(<<99, 100>>, progress)
  /\ scrollTop[1] > 1
  /\ pageYOffset = 1
  /\ scrollPending

====
